---- MODULE Spec2Model ----
(***************************************************************************)
(* Secure SMS forwarder backend: the /forward-message pipeline             *)
(* (main.py), the crypto gate (crypto_service.py), the deduplication store *)
(* (storage_service.py), the classifier (message_classifier.py) and the    *)
(* notifier handoff (whatsapp_service.py, template_manager.py).            *)
(*                                                                         *)
(* A handler is a coroutine on one event loop: it runs without             *)
(* interleaving until it awaits something that really suspends.  The       *)
(* suspension points of forward_message are the two Redis calls of         *)
(* store_message (Redis backend only) and the HTTP POST of send_message.   *)
(* Each action below is one such uninterrupted run of the handler.         *)
(***************************************************************************)
EXTENDS Integers, Sequences, FiniteSets, TLC

VARIABLES
    redis_on,       \* StorageService.redis is set (a Redis URL was configured and answered)
    redis_db,       \* the Redis server's keyspace: key -> [sender, expires_at]
    memory_store,   \* StorageService.memory_store: key -> [sender, message_type, expires_at]
    now,            \* the wall clock, time.time(), in seconds
    ticks,          \* how often the clock has been advanced
    task,           \* per handler task: position, request, locals, response, log
    call,           \* the last call made to a function, probe or endpoint on its
                    \* own: [op, args, result]; for the legacy endpoint, the
                    \* request as the client posted it
    delivered       \* the notifier's side, where a specification keeps it: the
                    \* messages it accepted with an id, each with the envelope it
                    \* came from and the time it was accepted

vars == <<redis_on, redis_db, memory_store, now, ticks, task, call, delivered>>

---------------------------------------------------------------------------
(* Bounds of the model *)

NumTasks == 2
MaxTicks == 3
MaxGateTicks == 1
Epoch == 1000
MaxWords == 3
MaxResendTicks == 2

Tasks == 1..NumTasks
TickSteps == {300}

None == "None"

---------------------------------------------------------------------------
(* models.py / message_classifier.py: MessageType *)

OTP == "OTP"
TRANSACTION == "TRANSACTION"
BILL == "BILL"
SECURITY_ALERT == "SECURITY_ALERT"
UNKNOWN == "UNKNOWN"

MessageType == {OTP, TRANSACTION, BILL, SECURITY_ALERT, UNKNOWN}

(* config.py: Settings defaults *)
ttl_otp == 300
ttl_transaction == 600
ttl_bill == 900
ttl_security == 600

whatsapp_template_otp == "otp_notification"
whatsapp_template_transaction == "transaction_alert"
whatsapp_template_bill == "bill_notification"
whatsapp_template_security == "security_alert"

(* The two process-wide secrets, and a key the service does not hold. *)
aes_key == "aes_encryption_key"
hmac_key == "hmac_secret_key"
foreign_key == "foreign_key"

---------------------------------------------------------------------------
(* Message texts.  A text is a sequence of space-separated tokens:         *)
(*   [k |-> "w",   s |-> word in lower case, n |-> 0]   a word             *)
(*   [k |-> "cur", s |-> "Rs" | "INR",       n |-> 0]   a currency mark,   *)
(*                                                     in the case the     *)
(*                                                     amount regex needs  *)
(*   [k |-> "num", s |-> the digits,         n |-> how many digits]        *)
(*   [k |-> "acct", s |-> the digits,        n |-> how many]   "XX" + digits *)
(*   [k |-> "ref", s |-> the digits,         n |-> how many]   two capital  *)
(*                              letters other than XX + digits, as "AB5678" *)
(*   [k |-> "pad", s |-> "x",                n |-> how many]   a word of n  *)
(*                              letters that is no keyword                  *)

W(s) == [k |-> "w", s |-> s, n |-> 0]
Cur(s) == [k |-> "cur", s |-> s, n |-> 0]
Num(s, n) == [k |-> "num", s |-> s, n |-> n]
Acct(s, n) == [k |-> "acct", s |-> s, n |-> n]
Ref(s, n) == [k |-> "ref", s |-> s, n |-> n]
Pad(n) == [k |-> "pad", s |-> "x", n |-> n]

MsgOtp == <<W("your"), W("otp"), W("code"), W("is"), Num("482913", 6)>>
MsgTxn == <<Cur("Rs"), Num("5000", 4), W("debited"), W("from"), W("a/c"), Acct("1234", 4)>>
MsgAlert == <<W("suspicious"), W("login"), W("blocked")>>
MsgBill == <<W("bill"), W("due"), Cur("Rs"), Num("750", 3)>>
MsgPlain == <<W("hello"), W("there")>>
MsgBadUtf8 == <<[k |-> "bytes", s |-> "not utf-8", n |-> 0]>>

Plaintexts == {MsgOtp, MsgTxn, MsgAlert, MsgBill, MsgPlain}

(* Lower-case words of the vocabulary that contain another as a substring  *)
(* (`in` on message_lower is a substring test, not a word test).           *)
SubstringPairs ==
    { <<"debited", "debit">>, <<"credited", "credit">>, <<"deposited", "deposit">>,
      <<"shopping", "pin">>, <<"barcode", "code">> }

Contains(s, sub) == s = sub \/ <<s, sub>> \in SubstringPairs

LowerHas(m, sub) == \E i \in 1..Len(m) : m[i].k = "w" /\ Contains(m[i].s, sub)

HasWord(m, ws) == \E i \in 1..Len(m) : m[i].k = "w" /\ m[i].s \in ws

(* Words of the vocabulary that end in another word (a keyword followed by *)
(* \b but not preceded by one matches at the end of a longer word).       *)
SuffixPairs == { <<"barcode", "code">> }

EndsWith(s, suf) == s = suf \/ <<s, suf>> \in SuffixPairs

---------------------------------------------------------------------------
(* message_classifier.py *)

OtpKeywords == {"otp", "code", "verification", "pin"}

(* a token that ends in 4 or more digits followed by a word boundary *)
EndsInDigits(tok) == tok.k \in {"num", "acct", "ref"} /\ tok.n >= 4

(* \b\d{4,8}\b : a digit run of 4 to 8 digits standing alone *)
IsCodeRun(tok) == tok.k = "num" /\ tok.n >= 4 /\ tok.n <= 8

(* OTP_PATTERNS, searched with re.IGNORECASE *)
OtpPattern1(m) ==
    \E i, j \in 1..Len(m) :
        i < j /\ m[i].k = "w" /\ m[i].s \in OtpKeywords /\ EndsInDigits(m[j])

OtpPattern2(m) ==
    \E i, j \in 1..Len(m) :
        /\ i < j /\ IsCodeRun(m[i]) /\ m[j].k = "w"
        /\ \E kw \in OtpKeywords : EndsWith(m[j].s, kw)

OtpPattern3(m) ==
    \E i \in 1..Len(m) :
        /\ i + 3 <= Len(m)
        /\ m[i].k = "w" /\ m[i].s \in {"your", "the"}
        /\ m[i + 1].k = "w" /\ m[i + 1].s \in {"otp", "code", "pin"}
        /\ m[i + 2].k = "w" /\ m[i + 2].s = "is"
        /\ IsCodeRun(m[i + 3])

(* AMOUNT_PATTERNS, searched case-sensitively: a currency mark followed by *)
(* digits, or digits followed by a currency mark                           *)
HasAmount(m) ==
    \E i \in 1..Len(m) :
        /\ i + 1 <= Len(m)
        /\ \/ m[i].k = "cur" /\ m[i + 1].k = "num"
           \/ m[i].k \in {"num", "acct", "ref"} /\ m[i + 1].k = "cur"

Count(flags) == Cardinality({i \in 1..Len(flags) : flags[i]})

NoResult == [message_type |-> None, confidence |-> 0, metadata |-> {}]

_check_otp(m) ==
    IF OtpPattern1(m) \/ OtpPattern2(m) \/ OtpPattern3(m)
    THEN [message_type |-> OTP, confidence |-> 95,
          metadata |-> {<<"has_otp", "True">>, <<"urgency", "high">>}]
    ELSE IF /\ \E i \in 1..Len(m) : IsCodeRun(m[i])
            /\ \E w \in {"otp", "code", "verification", "pin", "password"} : LowerHas(m, w)
    THEN [message_type |-> OTP, confidence |-> 85,
          metadata |-> {<<"has_otp", "True">>, <<"urgency", "high">>}]
    ELSE NoResult

(* TRANSACTION_KEYWORDS: one point for each of the five patterns found *)
TransactionKeywordHits(m) ==
    << HasWord(m, {"debited", "credited", "withdrawn", "deposited", "transferred"}),
       HasWord(m, {"debit", "credit", "withdrawal", "deposit", "transfer"}),
       HasWord(m, {"a/c"}),
       \E i, j \in 1..Len(m) : i < j /\ m[i] = W("account") /\ m[j].k = "acct",
       \E i, j \in 1..Len(m) : i < j /\ m[i] = W("card") /\ m[j].k = "acct" >>

_check_transaction(m) ==
    LET has_amount == HasAmount(m)
        transaction_score == Count(TransactionKeywordHits(m)) + (IF has_amount THEN 1 ELSE 0)
    IN  IF transaction_score >= 2
        THEN [message_type |-> TRANSACTION,
              confidence |-> IF has_amount THEN 90 ELSE 75,
              metadata |-> {<<"has_amount", IF has_amount THEN "True" ELSE "False">>,
                            <<"urgency", "medium">>}]
        ELSE NoResult

Adjacent(m, firsts, seconds) ==
    \E i \in 1..Len(m) :
        /\ i + 1 <= Len(m)
        /\ m[i].k = "w" /\ m[i].s \in firsts
        /\ m[i + 1].k = "w" /\ m[i + 1].s \in seconds

SecurityKeywordHits(m) ==
    << HasWord(m, {"alert", "security", "suspicious", "unauthorized", "blocked", "locked"}),
       HasWord(m, {"fraud", "scam", "phishing"}),
       Adjacent(m, {"new"}, {"device", "location", "login"}),
       Adjacent(m, {"verify", "confirm"}, {"identity", "account"}) >>

_check_security_alert(m) ==
    LET security_score == Count(SecurityKeywordHits(m))
    IN  IF security_score >= 1
        THEN [message_type |-> SECURITY_ALERT, confidence |-> 85,
              metadata |-> {<<"urgency", "high">>}]
        ELSE NoResult

BillKeywordHits(m) ==
    << HasWord(m, {"bill", "invoice", "payment", "due", "overdue"}),
       Adjacent(m, {"pay"}, {"by", "before"}),
       Adjacent(m, {"due"}, {"date", "on"}) >>

_check_bill(m) ==
    LET has_amount == HasAmount(m)
        bill_score == Count(BillKeywordHits(m)) + (IF has_amount THEN 1 ELSE 0)
    IN  IF bill_score >= 2
        THEN [message_type |-> BILL, confidence |-> 80,
              metadata |-> {<<"has_amount", IF has_amount THEN "True" ELSE "False">>,
                            <<"urgency", "low">>}]
        ELSE NoResult

(* Faulty variant: tries the bill rule before the security rule. *)
classify_bill_before_security(message_body, sender) ==
    IF _check_otp(message_body) # NoResult THEN _check_otp(message_body)
    ELSE IF _check_transaction(message_body) # NoResult THEN _check_transaction(message_body)
    ELSE IF _check_bill(message_body) # NoResult THEN _check_bill(message_body)
    ELSE IF _check_security_alert(message_body) # NoResult
        THEN _check_security_alert(message_body)
    ELSE [message_type |-> UNKNOWN, confidence |-> 0,
          metadata |-> {<<"reason", "No matching patterns">>}]

classify(message_body, sender) ==
    IF _check_otp(message_body) # NoResult THEN _check_otp(message_body)
    ELSE IF _check_transaction(message_body) # NoResult THEN _check_transaction(message_body)
    ELSE IF _check_security_alert(message_body) # NoResult
        THEN _check_security_alert(message_body)
    ELSE IF _check_bill(message_body) # NoResult THEN _check_bill(message_body)
    ELSE [message_type |-> UNKNOWN, confidence |-> 0,
          metadata |-> {<<"reason", "No matching patterns">>}]

---------------------------------------------------------------------------
(* Bytes, transport encoding and the two primitives (symbolic).            *)
(*                                                                         *)
(* AES-GCM seals a plaintext under a key and a nonce; the sealed box opens *)
(* only under the same key and nonce and with its tag intact.  The payload *)
(* bytes are IV || box.  Bytes too short to hold an IV and a tag are       *)
(* [short |-> "no_iv"] (fewer than 8 bytes: the cipher refuses the nonce)  *)
(* and [short |-> "no_tag"] (the cipher reports an invalid tag).           *)

IVs == {"iv1", "iv2"}

AesGcmEncrypt(key, iv, plaintext) ==
    [key |-> key, nonce |-> iv, plaintext |-> plaintext, tag_ok |-> TRUE]

FlipBit(box) == [box EXCEPT !.tag_ok = FALSE]

NoBox == [key |-> "", nonce |-> "", plaintext |-> <<>>, tag_ok |-> FALSE]

Bytes(iv, box) == [short |-> "no", iv |-> iv, box |-> box]
ShortBytes(kind) == [short |-> kind, iv |-> "", box |-> NoBox]

(* base64: the text form of bytes; text that is no base64 decodes to nothing *)
B64Encode(bytes) == [fmt |-> "b64", data |-> bytes]
NotBase64 == [fmt |-> "garbage", data |-> ShortBytes("no_iv")]

(* AESGCM.decrypt: the plaintext bytes, or the exception it raises *)
AesGcmDecrypt(key, iv, data) ==
    IF data.short = "no_iv" THEN [raised |-> "ValueError", value |-> <<>>]
    ELSE IF data.short = "no_tag" THEN [raised |-> "InvalidTag", value |-> <<>>]
    ELSE IF data.box.key = key /\ data.box.nonce = iv /\ data.box.tag_ok
    THEN [raised |-> None, value |-> data.box.plaintext]
    ELSE [raised |-> "InvalidTag", value |-> <<>>]

(* HMAC-SHA256 as a hex digest: determined by the key and the signed text *)
HmacSha256(key, text) == [mac |-> "hmac-sha256", key |-> key, text |-> text]
ZeroSignature == [mac |-> "zeros", key |-> "", text |-> NotBase64]

(* SHA-256 as a hex digest: determined by the hashed text *)
Sha256(text) == [h |-> "sha256", of |-> text]
NoHash == [h |-> None, of |-> <<>>]

---------------------------------------------------------------------------
(* crypto_service.py *)

Ok(v) == [ok |-> TRUE, value |-> v, error |-> None]
ValueError(text) == [ok |-> FALSE, value |-> <<>>, error |-> text]

verify_hmac(payload, signature) ==
    LET expected_signature == HmacSha256(hmac_key, payload)
    IN  expected_signature = signature

(* Faulty variant: opens every payload with one fixed IV. *)
decrypt_otp_fixed_iv(encrypted_payload) ==
    IF encrypted_payload.fmt # "b64" THEN ValueError("Decryption failed")
    ELSE
        LET encrypted_data == encrypted_payload.data
            iv == "iv1"
            plaintext == AesGcmDecrypt(aes_key, iv, encrypted_data)
        IN  IF plaintext.raised = "InvalidTag"
            THEN ValueError("Decryption failed: Invalid authentication tag")
            ELSE IF plaintext.raised # None THEN ValueError("Decryption failed")
            ELSE IF plaintext.value = MsgBadUtf8 THEN ValueError("Decryption failed")
            ELSE Ok(plaintext.value)

decrypt_otp(encrypted_payload) ==
    IF encrypted_payload.fmt # "b64" THEN ValueError("Decryption failed")
    ELSE
        LET encrypted_data == encrypted_payload.data
            iv == encrypted_data.iv
            plaintext == AesGcmDecrypt(aes_key, iv, encrypted_data)
        IN  IF plaintext.raised = "InvalidTag"
            THEN ValueError("Decryption failed: Invalid authentication tag")
            ELSE IF plaintext.raised # None THEN ValueError("Decryption failed")
            ELSE IF plaintext.value = MsgBadUtf8 THEN ValueError("Decryption failed")
            ELSE Ok(plaintext.value)

(* Faulty variant: decrypts before it verifies the signature. *)
validate_and_decrypt_decrypt_first(encrypted_payload, hmac_signature) ==
    LET d == decrypt_otp(encrypted_payload)
    IN  IF ~d.ok THEN [result |-> d, calls |-> <<"decrypt_otp">>]
        ELSE IF ~verify_hmac(encrypted_payload, hmac_signature)
        THEN [result |-> ValueError("HMAC verification failed"),
              calls |-> <<"decrypt_otp", "verify_hmac">>]
        ELSE [result |-> d, calls |-> <<"decrypt_otp", "verify_hmac">>]

(* The result, and the calls made on the way (in order). *)
validate_and_decrypt(encrypted_payload, hmac_signature) ==
    IF ~verify_hmac(encrypted_payload, hmac_signature)
    THEN [result |-> ValueError("HMAC verification failed"), calls |-> <<"verify_hmac">>]
    ELSE [result |-> decrypt_otp(encrypted_payload),
          calls |-> <<"verify_hmac", "decrypt_otp">>]

---------------------------------------------------------------------------
(* storage_service.py *)

(* Faulty variant: keeps an unclassified message as long as a bill. *)
_get_ttl_for_type_unknown_as_bill(message_type) ==
    CASE message_type = OTP -> ttl_otp
      [] message_type = TRANSACTION -> ttl_transaction
      [] message_type = BILL -> ttl_bill
      [] message_type = SECURITY_ALERT -> ttl_security
      [] OTHER -> ttl_bill

_get_ttl_for_type(message_type) ==
    CASE message_type = OTP -> ttl_otp
      [] message_type = TRANSACTION -> ttl_transaction
      [] message_type = BILL -> ttl_bill
      [] message_type = SECURITY_ALERT -> ttl_security
      [] message_type = UNKNOWN -> ttl_otp
      [] OTHER -> ttl_otp

(* the dict without the keys in ks *)
Without(store, ks) == [k \in DOMAIN store \ ks |-> store[k]]

(* the dict with store[key] = entry *)
With(store, key, entry) ==
    [k \in DOMAIN store \cup {key} |-> IF k = key THEN entry ELSE store[k]]

(* Faulty variant: keeps the entry whose expiry is this very second. *)
_cleanup_expired_late(store, current_time) ==
    LET expired_keys == {key \in DOMAIN store : current_time > store[key].expires_at}
    IN  Without(store, expired_keys)

_cleanup_expired(store, current_time) ==
    LET expired_keys == {key \in DOMAIN store : current_time >= store[key].expires_at}
    IN  Without(store, expired_keys)

(* exists(), in-memory branch: the swept dict and the answer *)
exists_memory(store, key, current_time) ==
    LET swept == _cleanup_expired(store, current_time)
    IN  [store |-> swept, found |-> key \in DOMAIN swept]

(* store_message(), in-memory backend: runs to completion without suspending *)
store_message_memory(store, message_hash, sender, message_type, current_time) ==
    LET e == exists_memory(store, message_hash, current_time)
        ttl == _get_ttl_for_type(message_type)
    IN  IF e.found
        THEN [store |-> e.store, is_new |-> FALSE]
        ELSE [store |-> With(_cleanup_expired(e.store, current_time), message_hash,
                             [sender |-> sender, message_type |-> message_type,
                              expires_at |-> current_time + ttl]),
              is_new |-> TRUE]

(* storage_service.health_check: the ping answers "ok" or raises *)
storage_health_check(use_redis, ping) ==
    IF use_redis THEN ping = "ok" ELSE TRUE

(* the Redis server: EXISTS key, and SETEX key ttl value *)
RedisExists(db, key, current_time) ==
    key \in DOMAIN db /\ current_time < db[key].expires_at

RedisSetex(db, key, ttl, value, current_time) ==
    With(db, key, [sender |-> value, expires_at |-> current_time + ttl])

RedisExpire(db, current_time) ==
    Without(db, {key \in DOMAIN db : current_time >= db[key].expires_at})

---------------------------------------------------------------------------
(* template_manager.py / whatsapp_service.py *)

(* A string of the renderer: its tokens and its length in characters.  A    *)
(* placeholder written by the masking pass is [k |-> "mask"], the marker    *)
(* "..." is [k |-> "ellipsis"], and a token cut by a slice keeps its kind   *)
(* and label with n = the digits (or letters) left of it.                   *)
Mask(s) == [k |-> "mask", s |-> s, n |-> 0]
Ellipsis == [k |-> "ellipsis", s |-> "...", n |-> 3]

WordLen(s) ==
    CASE s \in {"is"} -> 2
      [] s \in {"a/c", "otp", "due", "pay"} -> 3
      [] s \in {"your", "code", "from", "bill", "date", "BANK", "SHOP"} -> 4
      [] s \in {"hello", "there", "login"} -> 5
      [] s \in {"debited", "blocked"} -> 7
      [] s \in {"shopping"} -> 8
      [] s \in {"suspicious"} -> 10
      [] s \in {"Debit Alert"} -> 11
      [] s \in {"Credit Alert"} -> 12
      [] s \in {"Transaction Alert"} -> 17

TokLen(tok) ==
    CASE tok.k = "w" -> WordLen(tok.s)
      [] tok.k = "cur" -> IF tok.s = "INR" THEN 3 ELSE 2
      [] tok.k = "num" -> tok.n
      [] tok.k \in {"acct", "ref"} -> 2 + tok.n
      [] tok.k = "pad" -> tok.n
      [] tok.k = "part" -> tok.n
      [] tok.k = "mask" -> (CASE tok.s = "Rs ****" -> 7
                              [] tok.s = "XX****" -> 6
                              [] tok.s = "******" -> 6
                              [] tok.s = "****" -> 4)
      [] tok.k = "ellipsis" -> 3

RECURSIVE TextLen(_)
TextLen(m) ==
    IF Len(m) = 0 THEN 0
    ELSE IF Len(m) = 1 THEN TokLen(m[1])
    ELSE TokLen(m[1]) + 1 + TextLen(Tail(m))

Str(m) == [toks |-> m, len |-> TextLen(m)]

(* index of the first character of token i, counted from 0 *)
Start(m, i) == IF i = 1 THEN 0 ELSE TextLen(SubSeq(m, 1, i - 1)) + 1

(* what a slice leaves of a token of which `kept` characters remain *)
CutTok(tok, kept) ==
    IF kept >= TokLen(tok) THEN tok
    ELSE IF tok.k \in {"num", "pad"} THEN [tok EXCEPT !.n = kept]
    ELSE IF tok.k \in {"acct", "ref"} /\ kept > 2 THEN [tok EXCEPT !.n = kept - 2]
    ELSE IF tok.k = "acct" THEN [k |-> "part", s |-> "XX", n |-> kept]
    ELSE IF tok.k = "ref" THEN [k |-> "part", s |-> "AB", n |-> kept]
    ELSE [k |-> "part", s |-> tok.s, n |-> kept]

(* text[:limit] *)
Slice(m, limit) ==
    LET kept_tokens == Cardinality({i \in 1..Len(m) : Start(m, i) < limit})
    IN  [i \in 1..kept_tokens |-> CutTok(m[i], limit - Start(m, i))]

(* re.sub of the amount pattern: a currency mark and the digits after it   *)
(* become 'Rs ****'                                                         *)
RECURSIVE MaskAmounts(_)
MaskAmounts(m) ==
    IF Len(m) = 0 THEN <<>>
    ELSE IF Len(m) >= 2 /\ m[1].k = "cur" /\ m[2].k = "num"
    THEN <<Mask("Rs ****")>> \o MaskAmounts(SubSeq(m, 3, Len(m)))
    ELSE <<m[1]>> \o MaskAmounts(Tail(m))

(* re.sub of \bXX\d+\b *)
MaskAccounts(m) ==
    [i \in 1..Len(m) |-> IF m[i].k = "acct" THEN Mask("XX****") ELSE m[i]]

(* re.sub of \b\d{4,}\b *)
MaskNumbers(m) ==
    [i \in 1..Len(m) |-> IF m[i].k = "num" /\ m[i].n >= 4 THEN Mask("****") ELSE m[i]]

_mask_sensitive_data(text) ==
    LET masked == MaskNumbers(MaskAccounts(MaskAmounts(text)))
    IN  IF TextLen(masked) > 200
        THEN [toks |-> Append(Slice(masked, 197), Ellipsis), len |-> 197 + 3]
        ELSE Str(masked)

Param(text) == [type |-> "text", text |-> text]

_render_otp_params(sender, message_content) ==
    LET runs == {i \in 1..Len(message_content) : IsCodeRun(message_content[i])}
        otp_value == IF runs = {} THEN Mask("******")
                     ELSE message_content[CHOOSE i \in runs : \A j \in runs : i <= j]
    IN  << Param(Str(<<W(sender)>>)), Param(Str(<<otp_value>>)) >>

_render_transaction_params(sender, message_content) ==
    LET transaction_type ==
            IF LowerHas(message_content, "debit") \/ LowerHas(message_content, "withdrawn")
            THEN "Debit Alert"
            ELSE IF LowerHas(message_content, "credit") \/ LowerHas(message_content, "deposit")
            THEN "Credit Alert"
            ELSE "Transaction Alert"
        summary == _mask_sensitive_data(message_content)
    IN  << Param(Str(<<W(transaction_type)>>)), Param(Str(<<W(sender)>>)), Param(summary) >>

_render_bill_params(sender, message_content) ==
    LET summary == _mask_sensitive_data(message_content)
    IN  << Param(Str(<<W(sender)>>)), Param(summary) >>

_render_security_params(sender, message_content) ==
    LET summary == IF TextLen(message_content) > 200
                   THEN [toks |-> Slice(message_content, 200), len |-> 200]
                   ELSE Str(message_content)
    IN  << Param(Str(<<W(sender)>>)), Param(summary) >>

_render_generic_params(sender, message_content) ==
    LET summary == IF TextLen(message_content) > 200
                   THEN [toks |-> Slice(message_content, 200), len |-> 200]
                   ELSE Str(message_content)
    IN  << Param(Str(<<W(sender)>>)), Param(summary) >>

render_template_params(message_type, sender, message_content) ==
    IF message_type = OTP THEN _render_otp_params(sender, message_content)
    ELSE IF message_type = TRANSACTION
        THEN _render_transaction_params(sender, message_content)
    ELSE IF message_type = BILL THEN _render_bill_params(sender, message_content)
    ELSE IF message_type = SECURITY_ALERT
        THEN _render_security_params(sender, message_content)
    ELSE _render_generic_params(sender, message_content)

get_template_name(message_type) ==
    CASE message_type = OTP -> whatsapp_template_otp
      [] message_type = TRANSACTION -> whatsapp_template_transaction
      [] message_type = BILL -> whatsapp_template_bill
      [] message_type = SECURITY_ALERT -> whatsapp_template_security
      [] OTHER -> whatsapp_template_otp

(* whatsapp_service.health_check: what the GET of the phone number id gave *)
ProbeOutcomes == {"200", "non_200", "timeout", "error"}

whatsapp_health_check(outcome) == outcome = "200"

(* What the notifier can answer to the POST of send_message. *)
SendOutcomes == {"200_with_id", "200_without_id", "non_200", "timeout", "error"}

(* send_message's return value for an outcome *)
send_message_result(outcome) ==
    IF outcome = "200_with_id" THEN "wamid.1" ELSE None

---------------------------------------------------------------------------
(* main.py: forward_message *)

NoRequest ==
    [encrypted_payload |-> NotBase64, hmac_signature |-> ZeroSignature, sender |-> "",
     message_type |-> UNKNOWN, timestamp |-> 0, message_hash |-> NoHash]

(* A response: a ForwardResponse (200) or the error body of an HTTPException, *)
(* which carries a detail and no success flag (success is FALSE here).        *)
NoResponse ==
    [kind |-> None, status_code |-> 0, success |-> FALSE, message |-> "",
     about |-> None, whatsapp_message_id |-> None]

HTTPException(status_code, detail) ==
    [kind |-> "HTTPException", status_code |-> status_code, success |-> FALSE,
     message |-> detail, about |-> None, whatsapp_message_id |-> None]

(* ForwardResponse(success, f"{message_type} {text}", whatsapp_message_id) *)
ForwardResponse(message_type, text, whatsapp_message_id) ==
    [kind |-> "ForwardResponse", status_code |-> 200, success |-> TRUE,
     message |-> text, about |-> message_type, whatsapp_message_id |-> whatsapp_message_id]

LogLine(level, text, detail) == [level |-> level, text |-> text, detail |-> detail]

(* A task: where the handler is suspended (pc), the request it serves, its   *)
(* locals, what the notifier answered (send_outcome), the response it gave,  *)
(* the lines it logged, the calls it made in order (trace) and the POSTs it  *)
(* sent to the notifier.                                                     *)
NewTask ==
    [pc |-> "idle", req |-> NoRequest, current_time |-> 0, decrypted_message |-> <<>>,
     message_type |-> None, message_hash |-> NoHash, is_new |-> FALSE,
     store_returned |-> FALSE, send_outcome |-> None, resp |-> NoResponse, log |-> <<>>,
     trace |-> <<>>, posts |-> <<>>]

Abs(x) == IF x < 0 THEN -x ELSE x

(* Faulty variant: one window for every declared type. *)
max_time_diff_one_window(message_type) == 600

max_time_diff(message_type) == IF message_type = OTP THEN 300 ELSE 600

HealthResponse(status, redis_connected, whatsapp_api_configured) ==
    [status |-> status, redis_connected |-> redis_connected,
     whatsapp_api_configured |-> whatsapp_api_configured]

(* Faulty variant: one working probe is enough to be healthy. *)
health_check_either(use_redis, ping, outcome) ==
    LET redis_healthy == storage_health_check(use_redis, ping)
        whatsapp_healthy == whatsapp_health_check(outcome)
    IN  HealthResponse(IF redis_healthy \/ whatsapp_healthy THEN "healthy" ELSE "degraded",
                       redis_healthy, whatsapp_healthy)

(* main.py: GET /health *)
health_check(use_redis, ping, outcome) ==
    LET redis_healthy == storage_health_check(use_redis, ping)
        whatsapp_healthy == whatsapp_health_check(outcome)
    IN  HealthResponse(IF redis_healthy /\ whatsapp_healthy THEN "healthy" ELSE "degraded",
                       redis_healthy, whatsapp_healthy)

(* lines 202-208: TRUE when the request is rejected as a replay *)
timestamp_rejected(message_request, current_time) ==
    LET time_diff == Abs(current_time - message_request.timestamp)
    IN  time_diff > max_time_diff(message_request.message_type)

Respond(tk, resp) == [tk EXCEPT !.pc = "done", !.resp = resp]

Logged(tk, line) == [tk EXCEPT !.log = Append(@, line)]

Traced(tk, calls) == [tk EXCEPT !.trace = @ \o calls]

(* Faulty variant: posts once more when the notifier gave no message id. *)
after_send_retries(tk, whatsapp_message_id) ==
    IF whatsapp_message_id = None /\ Len(tk.posts) < 2
    THEN [tk EXCEPT !.pc = "send", !.posts = Append(@, tk.posts[1])]
    ELSE IF whatsapp_message_id = None
    THEN Respond(tk, HTTPException(500, "Failed to send WhatsApp message"))
    ELSE Respond(tk, ForwardResponse(tk.message_type, "message forwarded successfully",
                                     whatsapp_message_id))

(* lines 269-284: after send_message returned *)
after_send(tk, whatsapp_message_id) ==
    IF whatsapp_message_id = None
    THEN Respond(Logged(tk, LogLine("error", "Failed to send WhatsApp message", tk.message_type)),
                 HTTPException(500, "Failed to send WhatsApp message"))
    ELSE Respond(Logged(tk, LogLine("info", "message forwarded successfully", tk.message_type)),
                 ForwardResponse(tk.message_type, "message forwarded successfully",
                                 whatsapp_message_id))

(* whatsapp_service.send_message up to its POST: the request it sends *)
send_message_post(message_content, sender, message_type) ==
    [template |-> get_template_name(message_type), message_type |-> message_type,
     sender |-> sender,
     template_params |-> render_template_params(message_type, sender, message_content)]

(* Faulty variant: a duplicate is answered with a notification id. *)
after_store_duplicate_with_id(tk, is_new) ==
    LET t1 == [tk EXCEPT !.is_new = is_new, !.store_returned = TRUE]
    IN  IF ~is_new
        THEN Respond(t1, ForwardResponse(t1.message_type, "message already forwarded",
                                         "wamid.0"))
        ELSE [Traced(t1, <<"send_message">>) EXCEPT
                 !.pc = "send",
                 !.posts = Append(@, send_message_post(t1.decrypted_message, t1.req.sender,
                                                       t1.message_type))]

(* Faulty variant: answers a duplicate with an error. *)
after_store_rejects_duplicates(tk, is_new) ==
    LET t1 == [tk EXCEPT !.is_new = is_new, !.store_returned = TRUE]
    IN  IF ~is_new
        THEN Respond(t1, HTTPException(409, "Duplicate message"))
        ELSE [Traced(t1, <<"send_message">>) EXCEPT
                 !.pc = "send",
                 !.posts = Append(@, send_message_post(t1.decrypted_message, t1.req.sender,
                                                       t1.message_type))]

(* Faulty variant: hands a duplicate to the notifier too. *)
after_store_sends_duplicates(tk, is_new) ==
    LET t1 == [tk EXCEPT !.is_new = is_new, !.store_returned = TRUE]
    IN  [Traced(t1, <<"send_message">>) EXCEPT
            !.pc = "send",
            !.posts = Append(@, send_message_post(t1.decrypted_message, t1.req.sender,
                                                  t1.message_type))]

(* lines 254-267: after store_message returned is_new *)
after_store(tk, is_new) ==
    LET t1 == [tk EXCEPT !.is_new = is_new, !.store_returned = TRUE]
    IN  IF ~is_new
        THEN Respond(Logged(t1, LogLine("info", "Duplicate message detected, skipping",
                                        t1.message_type)),
                     ForwardResponse(t1.message_type, "message already forwarded", None))
        ELSE [Traced(t1, <<"send_message">>) EXCEPT
                 !.pc = "send",
                 !.posts = Append(@, send_message_post(t1.decrypted_message, t1.req.sender,
                                                       t1.message_type))]

(* Faulty variant: classifies whatever type the caller declared. *)
classified_always(tk) ==
    LET classification == classify(tk.decrypted_message, tk.req.sender)
    IN  Logged([Traced(tk, <<"classify">>) EXCEPT
                   !.message_type = classification.message_type],
               LogLine("info", "Message classified", classification.message_type))

(* lines 228-245: classification and fingerprint *)
classified(tk) ==
    IF tk.req.message_type = UNKNOWN
    THEN LET classification == classify(tk.decrypted_message, tk.req.sender)
         IN  Logged([Traced(tk, <<"classify">>) EXCEPT
                        !.message_type = classification.message_type],
                    LogLine("info", "Message classified", classification.message_type))
    ELSE [tk EXCEPT !.message_type = tk.req.message_type]

fingerprinted(tk) ==
    IF tk.req.message_hash # NoHash
    THEN [tk EXCEPT !.message_hash = tk.req.message_hash]
    ELSE [tk EXCEPT !.message_hash = Sha256(tk.decrypted_message)]

(* lines 247-252 and what follows without suspending: store_message on the   *)
(* in-memory backend completes at once; on Redis it suspends in exists()     *)
start_store(tk, store, use_redis, clock) ==
    LET t1 == Traced(tk, <<"store_message">>)
    IN  IF use_redis
        THEN [task |-> [t1 EXCEPT !.pc = "exists"], store |-> store]
        ELSE LET st == store_message_memory(store, t1.message_hash, t1.req.sender,
                                            t1.message_type, clock)
             IN  [task |-> after_store(t1, st.is_new), store |-> st.store]

(* Faulty variant: verifies and decrypts before it checks the timestamp. *)
admitted_crypto_first(t0, message_request, clock) ==
    LET v == validate_and_decrypt(message_request.encrypted_payload,
                                  message_request.hmac_signature)
        t1 == Traced(t0, v.calls)
    IN  IF ~v.result.ok
        THEN Respond(Logged(t1, LogLine("warning", "Crypto validation failed",
                                        v.result.error)),
                     HTTPException(401, "Authentication failed"))
        ELSE IF timestamp_rejected(message_request, clock)
        THEN Respond(Logged(Traced(t1, <<"replay_check">>),
                            LogLine("warning", "Request rejected: timestamp too old", None)),
                     HTTPException(400, "Request timestamp is invalid"))
        ELSE [Traced(t1, <<"replay_check">>) EXCEPT !.decrypted_message = v.result.value]

(* lines 201-226: the replay check, then verification and decryption: the   *)
(* task with its error response, or with decrypted_message set               *)
admitted(t0, message_request, clock) ==
    IF timestamp_rejected(message_request, clock)
    THEN Respond(Logged(Traced(t0, <<"replay_check">>),
                        LogLine("warning", "Request rejected: timestamp too old", None)),
                 HTTPException(400, "Request timestamp is invalid"))
    ELSE
        LET v == validate_and_decrypt(message_request.encrypted_payload,
                                      message_request.hmac_signature)
            t1 == Traced(t0, <<"replay_check">> \o v.calls)
        IN  IF ~v.result.ok
            THEN Respond(Logged(t1, LogLine("warning", "Crypto validation failed",
                                            v.result.error)),
                         HTTPException(401, "Authentication failed"))
            ELSE [t1 EXCEPT !.decrypted_message = v.result.value]

(* Faulty variant: sweeps the in-process store before it looks at the      *)
(* request, so a rejected request drops the expired entries.               *)
forward_message_sweeps_first(message_request, clock, store, use_redis) ==
    LET t0 == [NewTask EXCEPT !.req = message_request, !.current_time = clock]
        t1 == admitted(t0, message_request, clock)
        swept == _cleanup_expired(store, clock)
    IN  IF t1.pc = "done"
        THEN [task |-> t1, store |-> swept]
        ELSE start_store(fingerprinted(classified(t1)), swept, use_redis, clock)

(* lines 200-252: the handler from its start to its first suspension (or to  *)
(* its response): the task record and the in-memory store it leaves          *)
forward_message(message_request, clock, store, use_redis) ==
    LET t0 == [NewTask EXCEPT !.req = message_request, !.current_time = clock]
        t1 == admitted(t0, message_request, clock)
    IN  IF t1.pc = "done"
        THEN [task |-> t1, store |-> store]
        ELSE start_store(fingerprinted(classified(t1)), store, use_redis, clock)

(* Faulty variant: passes the request on with the type it declares. *)
forward_otp_legacy_as_declared(message_request, clock, store, use_redis) ==
    forward_message(message_request, clock, store, use_redis)

(* lines 297-307: POST /forward-otp sets the declared type to OTP on the    *)
(* request object and runs forward_message on it                            *)
forward_otp_legacy(message_request, clock, store, use_redis) ==
    forward_message([message_request EXCEPT !.message_type = OTP], clock, store, use_redis)

(* storage_service.py: what an instance of StorageService has, the fields   *)
(* set by __init__ and the methods of the class                             *)
StorageServiceAttributes ==
    {"redis", "memory_store", "store_message", "exists", "_get_ttl_for_type",
     "_cleanup_expired", "health_check"}

(* the attribute lookup storage_service.<name> *)
Lookup(name) ==
    IF name \in StorageServiceAttributes THEN "bound method" ELSE "AttributeError"

(* what the server answers when a handler raises an exception it does not   *)
(* catch; the three handlers below have no try block                        *)
InternalServerError ==
    [kind |-> "ServerError", status_code |-> 500, success |-> FALSE,
     message |-> "Internal Server Error", token |-> None]

(* lines 88-117: POST /send-verification-otp draws the code, then looks up  *)
(* storage_service.store_verification_otp (line 100), which StorageService  *)
(* does not define: the lookup raises before anything is stored or sent.    *)
send_verification_otp(whatsapp_number, otp) ==
    CASE Lookup("store_verification_otp") = "AttributeError" -> InternalServerError

(* lines 120-144: POST /verify-otp starts with the lookup of                *)
(* storage_service.get_verification_otp (line 126)                          *)
verify_otp(whatsapp_number, otp) ==
    CASE Lookup("get_verification_otp") = "AttributeError" -> InternalServerError

(* lines 147-167: POST /register-user starts with the lookup of             *)
(* storage_service.get_verification_otp (line 154)                          *)
register_user(whatsapp_number, verification_token) ==
    CASE Lookup("get_verification_otp") = "AttributeError" -> InternalServerError

(* store_message lines 63-69 on Redis: exists() returned (or raised, which   *)
(* exists() logs and answers False)                                          *)
after_redis_exists(tk, outcome, db, clock) ==
    LET found == IF outcome = "raise" THEN FALSE ELSE RedisExists(db, tk.message_hash, clock)
        t1 == IF outcome = "raise"
              THEN Logged(tk, LogLine("error", "Redis exists check failed", None))
              ELSE tk
    IN  IF found
        THEN after_store(t1, FALSE)
        ELSE [t1 EXCEPT !.pc = "setex"]

(* store_message lines 71-90 on Redis: setex returned or raised *)
after_redis_setex(tk, outcome) ==
    IF outcome = "ok"
    THEN after_store(tk, TRUE)
    ELSE after_store(Logged(tk, LogLine("error", "Failed to store message", None)), FALSE)

---------------------------------------------------------------------------
(* Requests (models.py: EncryptedMessageRequest) *)

Seal(key, iv, plaintext) == B64Encode(Bytes(iv, AesGcmEncrypt(key, iv, plaintext)))

ValidPayload(plaintext) == Seal(aes_key, "iv1", plaintext)

(* payloads that do not open: a flipped bit in the box, a flipped bit in    *)
(* the IV, sealed under another key, too short, no base64, no UTF-8         *)
BadPayloads ==
    { B64Encode(Bytes("iv1", FlipBit(AesGcmEncrypt(aes_key, "iv1", MsgOtp)))),
      B64Encode(Bytes("iv2", AesGcmEncrypt(aes_key, "iv1", MsgOtp))),
      Seal(foreign_key, "iv1", MsgOtp),
      B64Encode(ShortBytes("no_iv")),
      B64Encode(ShortBytes("no_tag")),
      NotBase64,
      ValidPayload(MsgBadUtf8) }

Sign(payload) == HmacSha256(hmac_key, payload)

(* signatures that do not verify for payload *)
BadSignatures(payload) ==
    { HmacSha256(foreign_key, payload),
      HmacSha256(hmac_key, IF payload = NotBase64 THEN ValidPayload(MsgOtp) ELSE NotBase64),
      ZeroSignature }

Senders == {"BANK", "SHOP"}

WindowEdges == {300, 301, 600, 601}
Offsets == {0} \cup WindowEdges \cup {-d : d \in WindowEdges}

Request(payload, signature, sender, message_type, timestamp, message_hash) ==
    [encrypted_payload |-> payload, hmac_signature |-> signature, sender |-> sender,
     message_type |-> message_type, timestamp |-> timestamp, message_hash |-> message_hash]

(* requests that probe the replay window: every declared type at every edge *)
(* of the two windows, in the past and in the future, well and badly signed *)
ReplayRequests(clock) ==
    { Request(ValidPayload(MsgOtp), sig, "BANK", ty, clock + off, NoHash) :
        sig \in {Sign(ValidPayload(MsgOtp)), ZeroSignature}, ty \in MessageType, off \in Offsets }

(* requests that probe the crypto gate: every payload with every signature *)
CryptoRequests(clock) ==
    UNION { { Request(p, sig, "BANK", ty, clock, NoHash) :
                sig \in {Sign(p)} \cup BadSignatures(p), ty \in {UNKNOWN} } :
            p \in BadPayloads \cup {ValidPayload(MsgOtp)} }

GateRequests(clock) == ReplayRequests(clock) \cup CryptoRequests(clock)

(* authentic fresh requests: the OTP text under every declared type, from   *)
(* two senders, and the transaction text, with and without a caller's hash  *)
StoreRequests(clock) ==
    { Request(ValidPayload(MsgOtp), Sign(ValidPayload(MsgOtp)), "BANK", ty, clock, NoHash) :
        ty \in MessageType }
    \cup
    { Request(ValidPayload(MsgOtp), Sign(ValidPayload(MsgOtp)), "SHOP", ty, clock, NoHash) :
        ty \in {OTP, BILL} }
    \cup
    { Request(ValidPayload(MsgTxn), Sign(ValidPayload(MsgTxn)), "BANK", ty, clock, h) :
        ty \in {UNKNOWN, TRANSACTION}, h \in {NoHash, Sha256(MsgOtp)} }
    \cup
    { Request(ValidPayload(MsgPlain), Sign(ValidPayload(MsgPlain)), "BANK", UNKNOWN, clock,
              NoHash) }

(* one envelope submitted again and again, each time with the timestamp of  *)
(* the moment, under three declared types                                   *)
ResendRequests(clock) ==
    { Request(ValidPayload(MsgOtp), Sign(ValidPayload(MsgOtp)), "BANK", ty, clock, NoHash) :
        ty \in {OTP, UNKNOWN, BILL} }

(* requests to the legacy endpoint: two texts under every declared type,   *)
(* at the edges of the two windows                                          *)
LegacyRequests(clock) ==
    { Request(ValidPayload(m), Sign(ValidPayload(m)), "BANK", ty, clock - off, NoHash) :
        m \in {MsgOtp, MsgTxn}, ty \in MessageType, off \in {0} \cup WindowEdges }

(* what clients send to the three sign-up endpoints *)
WhatsappNumbers == {"+10000000001", "+10000000002"}
Otps == {"482913", "000000"}
VerificationTokens == {"0f0f0f0f0f0f0f0f0f0f0f0f0f0f0f0f", "a7a7a7a7a7a7a7a7a7a7a7a7a7a7a7a7"}

(* the requests of concurrent clients: authentic, fresh, two texts *)
ConcurrentRequests(clock) ==
    { Request(ValidPayload(m), Sign(ValidPayload(m)), "BANK", ty, clock, NoHash) :
        m \in {MsgOtp, MsgTxn}, ty \in {OTP, TRANSACTION} }

---------------------------------------------------------------------------
(* The state machine *)

(* the texts of up to MaxWords tokens over a vocabulary *)
TextsOver(vocabulary) == UNION { [1..n -> vocabulary] : n \in 1..MaxWords }

(* tokens that reach every pattern of the classifier *)
ClassifierWords ==
    { W("otp"), W("shopping"), Num("482913", 6), Num("750", 3), Cur("Rs"),
      W("debited"), Acct("1234", 4), W("suspicious"), W("bill"), W("due"),
      W("date"), W("hello") }

ClassifierTexts == TextsOver(ClassifierWords) \cup Plaintexts

(* tokens that reach every pattern of the masking pass and both cuts *)
MaskWords ==
    { Cur("Rs"), Num("5000", 4), Num("750", 3), Acct("1234", 4), Ref("5678", 4),
      W("debited"), Pad(99) }

MaskTexts == TextsOver(MaskWords) \cup Plaintexts

(* plaintexts sealed for the round trip, the empty text among them *)
RoundTripTexts == ClassifierTexts \cup MaskTexts \cup {<<>>}

NoCall == [op |-> "none"]

Init ==
    /\ redis_on \in BOOLEAN
    /\ redis_db = <<>>
    /\ memory_store = <<>>
    /\ now = Epoch
    /\ ticks = 0
    /\ task = [t \in Tasks |-> NewTask]
    /\ call = NoCall
    /\ delivered = {}

(* A request arrives at task t, which runs to its first suspension. *)
Receive(t, reqs) ==
    /\ task[t].pc \in {"idle", "done"}
    /\ \E r \in reqs :
        LET out == forward_message(r, now, memory_store, redis_on)
        IN  /\ task' = [task EXCEPT ![t] = out.task]
            /\ memory_store' = out.store
    /\ UNCHANGED <<redis_on, redis_db, now, ticks, call, delivered>>

(* A request arrives at the legacy endpoint and task t runs it to its first *)
(* suspension; call keeps the request as the client posted it.              *)
ReceiveLegacy(t, reqs) ==
    /\ task[t].pc \in {"idle", "done"}
    /\ \E r \in reqs :
        LET out == forward_otp_legacy(r, now, memory_store, redis_on)
        IN  /\ task' = [task EXCEPT ![t] = out.task]
            /\ memory_store' = out.store
            /\ call' = [op |-> "forward_otp_legacy", args |-> <<r>>, result |-> None]
    /\ UNCHANGED <<redis_on, redis_db, now, ticks, delivered>>

(* The awaited redis.exists() of task t completes. *)
ExistsReturn(t) ==
    /\ task[t].pc = "exists"
    /\ \E outcome \in {"ok", "raise"} :
        task' = [task EXCEPT ![t] = after_redis_exists(task[t], outcome, redis_db, now)]
    /\ UNCHANGED <<redis_on, redis_db, memory_store, now, ticks, call, delivered>>

(* The awaited redis.setex() of task t completes: the server stored the key  *)
(* and the call returned, or the call raised with the key stored or not.     *)
SetexReturn(t) ==
    /\ task[t].pc = "setex"
    /\ \E outcome \in {"ok", "raise_stored", "raise_not_stored"} :
        /\ task' = [task EXCEPT ![t] = after_redis_setex(task[t], outcome)]
        /\ redis_db' = IF outcome = "raise_not_stored" THEN redis_db
                       ELSE RedisSetex(redis_db, task[t].message_hash,
                                       _get_ttl_for_type(task[t].message_type),
                                       task[t].req.sender, now)
    /\ UNCHANGED <<redis_on, memory_store, now, ticks, call, delivered>>

(* The POST of send_message of task t completes. *)
SendReturn(t) ==
    /\ task[t].pc = "send"
    /\ \E outcome \in SendOutcomes :
        task' = [task EXCEPT ![t] = after_send([task[t] EXCEPT !.send_outcome = outcome],
                                               send_message_result(outcome))]
    /\ UNCHANGED <<redis_on, redis_db, memory_store, now, ticks, call, delivered>>

(* what the notifier holds of a message it accepted at a time from task tk, *)
(* which received its request at tk.current_time                            *)
Delivery(tk, at) ==
    [message_hash |-> tk.message_hash, encrypted_payload |-> tk.req.encrypted_payload,
     hmac_signature |-> tk.req.hmac_signature, message_type |-> tk.message_type,
     received |-> tk.current_time, at |-> at]

(* The POST of send_message of task t completes, and the notifier's side is *)
(* kept: a message it answered with an id is one it accepted.               *)
SendReturnKept(t) ==
    /\ task[t].pc = "send"
    /\ \E outcome \in SendOutcomes :
        /\ task' = [task EXCEPT ![t] = after_send([task[t] EXCEPT !.send_outcome = outcome],
                                                  send_message_result(outcome))]
        /\ delivered' = IF send_message_result(outcome) = None THEN delivered
                        ELSE delivered \cup {Delivery(task[t], now)}
    /\ UNCHANGED <<redis_on, redis_db, memory_store, now, ticks, call>>

(* Time passes; the Redis server drops the keys whose expiry has come. *)
Tick(limit) ==
    /\ ticks < limit
    /\ \E d \in TickSteps :
        /\ now' = now + d
        /\ redis_db' = RedisExpire(redis_db, now + d)
    /\ ticks' = ticks + 1
    /\ UNCHANGED <<redis_on, memory_store, task, call, delivered>>

(* message_classifier.classify is called on a text. *)
ClassifyCall ==
    /\ call = NoCall
    /\ \E m \in ClassifierTexts, sender \in Senders :
        call' = [op |-> "classify", args |-> <<m, sender>>, result |-> classify(m, sender)]
    /\ UNCHANGED <<redis_on, redis_db, memory_store, now, ticks, task, delivered>>

(* template_manager._mask_sensitive_data is called on a text. *)
MaskCall ==
    /\ call = NoCall
    /\ \E text \in MaskTexts :
        call' = [op |-> "mask", args |-> <<text>>, result |-> _mask_sensitive_data(text)]
    /\ UNCHANGED <<redis_on, redis_db, memory_store, now, ticks, task, delivered>>

(* template_manager.render_template_params is called for a type and a text. *)
RenderCall ==
    /\ call = NoCall
    /\ \E message_type \in MessageType, sender \in Senders, text \in MaskTexts :
        call' = [op |-> "render", args |-> <<message_type, sender, text>>,
                 result |-> render_template_params(message_type, sender, text)]
    /\ UNCHANGED <<redis_on, redis_db, memory_store, now, ticks, task, delivered>>

(* GET /health: both probes are made and the answer is built. *)
HealthCall ==
    /\ call = NoCall
    /\ \E ping \in {"ok", "raise"}, outcome \in ProbeOutcomes :
        call' = [op |-> "health", args |-> <<redis_on, ping, outcome>>,
                 result |-> health_check(redis_on, ping, outcome)]
    /\ UNCHANGED <<redis_on, redis_db, memory_store, now, ticks, task, delivered>>

(* POST /send-verification-otp for a number; the handler draws a code. *)
SendVerificationOtpCall ==
    /\ call = NoCall
    /\ \E number \in WhatsappNumbers, otp \in Otps :
        call' = [op |-> "send_verification_otp", args |-> <<number>>,
                 result |-> send_verification_otp(number, otp)]
    /\ UNCHANGED <<redis_on, redis_db, memory_store, now, ticks, task, delivered>>

(* POST /verify-otp with a number and a code. *)
VerifyOtpCall ==
    /\ call = NoCall
    /\ \E number \in WhatsappNumbers, otp \in Otps :
        call' = [op |-> "verify_otp", args |-> <<number, otp>>,
                 result |-> verify_otp(number, otp)]
    /\ UNCHANGED <<redis_on, redis_db, memory_store, now, ticks, task, delivered>>

(* POST /register-user with a number and a verification token. *)
RegisterUserCall ==
    /\ call = NoCall
    /\ \E number \in WhatsappNumbers, token \in VerificationTokens :
        call' = [op |-> "register_user", args |-> <<number, token>>,
                 result |-> register_user(number, token)]
    /\ UNCHANGED <<redis_on, redis_db, memory_store, now, ticks, task, delivered>>

(* A client seals a plaintext under the service's keys; the service opens  *)
(* the payload and verifies the signature.                                  *)
RoundTripCall ==
    /\ call = NoCall
    /\ \E plaintext \in RoundTripTexts, iv \in IVs :
        LET payload == Seal(aes_key, iv, plaintext)
        IN  call' = [op |-> "round_trip", args |-> <<plaintext, iv>>,
                     result |-> [decrypted |-> decrypt_otp(payload),
                                 verified |-> verify_hmac(payload, Sign(payload))]]
    /\ UNCHANGED <<redis_on, redis_db, memory_store, now, ticks, task, delivered>>

(* One worker serving authentic requests one after another. *)
Next ==
    \/ Receive(1, StoreRequests(now))
    \/ ExistsReturn(1)
    \/ SetexReturn(1)
    \/ SendReturn(1)
    \/ Tick(MaxTicks)

Spec == Init /\ [][Next]_vars

(* One worker serving requests of every kind at the gate. *)
NextGate ==
    \/ Receive(1, GateRequests(now))
    \/ ExistsReturn(1)
    \/ SetexReturn(1)
    \/ SendReturn(1)
    \/ Tick(MaxGateTicks)

SpecGate == Init /\ [][NextGate]_vars

(* One worker serving envelopes that clients submit again, with the        *)
(* notifier's side kept.                                                    *)
NextResend ==
    \/ Receive(1, ResendRequests(now))
    \/ ExistsReturn(1)
    \/ SetexReturn(1)
    \/ SendReturnKept(1)
    \/ Tick(MaxResendTicks)

SpecResend == Init /\ [][NextResend]_vars

(* One worker serving the legacy endpoint. *)
NextLegacy ==
    \/ ReceiveLegacy(1, LegacyRequests(now))
    \/ ExistsReturn(1)
    \/ SetexReturn(1)
    \/ SendReturn(1)
    \/ Tick(MaxGateTicks)

SpecLegacy == Init /\ [][NextLegacy]_vars

(* The functions and probes of the service, each called on its own. *)
NextCalls ==
    \/ ClassifyCall
    \/ MaskCall
    \/ RenderCall
    \/ HealthCall
    \/ RoundTripCall
    \/ SendVerificationOtpCall
    \/ VerifyOtpCall
    \/ RegisterUserCall

SpecCalls == Init /\ [][NextCalls]_vars

(* NumTasks requests, each served by its own task, in flight on the one     *)
(* event loop.                                                              *)
NextConcurrent ==
    \/ \E t \in Tasks : task[t].pc = "idle" /\ Receive(t, ConcurrentRequests(now))
    \/ \E t \in Tasks : ExistsReturn(t)
    \/ \E t \in Tasks : SetexReturn(t)
    \/ \E t \in Tasks : SendReturn(t)
    \/ Tick(MaxGateTicks)

SpecConcurrent == Init /\ [][NextConcurrent]_vars

---------------------------------------------------------------------------
(* Properties *)

(* what the contract calls a valid pair, stated without the service's code: *)
(* the signature is the MAC of the transport text under the MAC key, and    *)
(* the text is base64 of IV || box, the box sealed under the AEAD key and   *)
(* that IV, untouched, holding UTF-8 text                                   *)
AuthenticPair(payload, signature) ==
    /\ signature = [mac |-> "hmac-sha256", key |-> hmac_key, text |-> payload]
    /\ payload.fmt = "b64"
    /\ payload.data.short = "no"
    /\ payload.data.box.key = aes_key
    /\ payload.data.box.nonce = payload.data.iv
    /\ payload.data.box.tag_ok
    /\ payload.data.box.plaintext # MsgBadUtf8

(* the replay window of the contract *)
WithinWindow(timestamp, declared_type, at) ==
    IF declared_type = "OTP" THEN Abs(at - timestamp) <= 300 ELSE Abs(at - timestamp) <= 600

Served(t) == task[t].pc # "idle"

Has(seq, x) == \E i \in 1..Len(seq) : seq[i] = x

(* C1: the notifier is invoked for a request only if, in that request, the  *)
(* timestamp passed the replay window, the payload/signature pair verified  *)
(* and decrypted, and store_message reported the fingerprint as first seen. *)
C1_NotifierOnlyBehindTheGate ==
    \A t \in Tasks :
        Len(task[t].posts) > 0 =>
            /\ WithinWindow(task[t].req.timestamp, task[t].req.message_type,
                            task[t].current_time)
            /\ AuthenticPair(task[t].req.encrypted_payload, task[t].req.hmac_signature)
            /\ task[t].store_returned /\ task[t].is_new

C1_Witness ==
    \E t \in Tasks : task[t].pc = "send" /\ Len(task[t].posts) = 1 /\ task[t].is_new

(* C4: a request's timestamp is accepted if and only if |now - timestamp|   *)
(* is at most 300 for declared type OTP and at most 600 for every other     *)
(* declared type, in the past and in the future alike; a rejected request   *)
(* is answered 400.                                                         *)
C4_ReplayWindow ==
    \A t \in Tasks :
        Served(t) =>
            LET diff == task[t].current_time - task[t].req.timestamp
                bound == IF task[t].req.message_type = "OTP" THEN 300 ELSE 600
                accepted == Len(task[t].trace) > 1
                rejected == /\ task[t].pc = "done"
                            /\ task[t].resp = HTTPException(400, "Request timestamp is invalid")
            IN  /\ accepted <=> (diff <= bound /\ -diff <= bound)
                /\ rejected <=> ~accepted

(* an OTP request exactly 300 s old was accepted, and one 300 s ahead too *)
C4_Witness ==
    \E t \in Tasks :
        /\ task[t].req.message_type = "OTP"
        /\ task[t].current_time - task[t].req.timestamp = 300
        /\ Len(task[t].trace) > 1

(* C5: the stages run in the order replay check, signature verification,    *)
(* decryption, classification, deduplication register, notifier handoff,    *)
(* each only after the earlier ones succeeded; a request that is stale and  *)
(* badly signed is answered 400 'Request timestamp is invalid'.             *)
StageOrder ==
    <<"replay_check", "verify_hmac", "decrypt_otp", "classify", "store_message",
      "send_message">>

Rank(stage) == CHOOSE i \in 1..Len(StageOrder) : StageOrder[i] = stage

C6_VerifyBeforeDecrypt ==
    \A t \in Tasks :
        \A j \in 1..Len(task[t].trace) :
            task[t].trace[j] = "decrypt_otp" =>
                /\ \E i \in 1..(j - 1) : task[t].trace[i] = "verify_hmac"
                /\ task[t].req.hmac_signature
                       = [mac |-> "hmac-sha256", key |-> hmac_key,
                          text |-> task[t].req.encrypted_payload]

(* a well-signed payload that does not open: decryption was attempted *)
C6_Witness ==
    \E t \in Tasks :
        /\ Has(task[t].trace, "decrypt_otp")
        /\ task[t].resp.status_code = 401

(* the cause-specific log lines and responses of the requests that fail     *)
(* verification or decryption at time `at`                                  *)
FailureReports(at) ==
    { [resp |-> forward_message(r, at, <<>>, FALSE).task.resp,
       log |-> forward_message(r, at, <<>>, FALSE).task.log] :
        r \in {q \in CryptoRequests(at) :
                   ~AuthenticPair(q.encrypted_payload, q.hmac_signature)} }

(* C7: every pair that is not a valid pair fails with one opaque            *)
(* authentication failure: the caller gets 401 'Authentication failed', and *)
(* neither the response nor the log tells the causes apart.                 *)
C7_OpaqueAuthenticationFailure ==
    \A t \in Tasks :
        ( /\ Served(t)
          /\ WithinWindow(task[t].req.timestamp, task[t].req.message_type,
                          task[t].current_time)
          /\ ~AuthenticPair(task[t].req.encrypted_payload, task[t].req.hmac_signature) )
        => /\ task[t].pc = "done"
           /\ task[t].resp = HTTPException(401, "Authentication failed")
           /\ \A other \in FailureReports(task[t].current_time) :
                  other.resp = task[t].resp /\ other.log = task[t].log

(* the part of C7 the code keeps: one response for every cause *)
C7_OpaqueResponse ==
    \A t \in Tasks :
        ( /\ Served(t)
          /\ WithinWindow(task[t].req.timestamp, task[t].req.message_type,
                          task[t].current_time)
          /\ ~AuthenticPair(task[t].req.encrypted_payload, task[t].req.hmac_signature) )
        => /\ task[t].pc = "done"
           /\ task[t].resp = HTTPException(401, "Authentication failed")

StoreFailed(tk) ==
    \E i \in 1..Len(tk.log) :
        tk.log[i].text \in {"Redis exists check failed", "Failed to store message"}

(* the fingerprint is registered and its TTL has not elapsed *)
Registered(fingerprint) ==
    IF redis_on
    THEN fingerprint \in DOMAIN redis_db /\ now < redis_db[fingerprint].expires_at
    ELSE fingerprint \in DOMAIN memory_store /\ now < memory_store[fingerprint].expires_at

TtlOf(message_type) ==
    CASE message_type = "OTP" -> 300
      [] message_type = "TRANSACTION" -> 600
      [] message_type = "BILL" -> 900
      [] message_type = "SECURITY_ALERT" -> 600
      [] message_type = "UNKNOWN" -> 300

(* store_message returns to task t in this step *)
StoreReturnsTo(t) ==
    /\ task'[t] # task[t]
    /\ task'[t].store_returned
    /\ task[t].pc \in {"idle", "done"} \/ ~task[t].store_returned

(* what store_message owes task t on the step it returns: first-seen       *)
(* exactly when the fingerprint is not registered, and a first-seen         *)
(* fingerprint registered until now + the TTL of its type                   *)
StoreAnswer(t) ==
    LET fp == task'[t].message_hash
    IN  /\ task'[t].is_new <=> ~Registered(fp)
        /\ task'[t].is_new =>
               LET entries == IF redis_on THEN redis_db' ELSE memory_store'
               IN  /\ fp \in DOMAIN entries
                   /\ entries[fp].expires_at = now + TtlOf(task'[t].message_type)

(* C3: with no other activity on a fingerprint, the first store_message     *)
(* returns true, one made while the fingerprint is registered and the TTL   *)
(* of the type it was registered with has not elapsed returns false, and    *)
(* one made after that TTL has elapsed returns true again.                  *)
C3_FirstSeenThenDuplicateUntilTtl ==
    [][ \A t \in Tasks : StoreReturnsTo(t) => StoreAnswer(t) ]_vars

(* the part of C3 the code keeps: the answers of a store whose calls        *)
(* complete without raising                                                 *)
C3_WithoutStoreFaults ==
    [][ \A t \in Tasks :
          (StoreReturnsTo(t) /\ ~StoreFailed(task'[t])) => StoreAnswer(t) ]_vars

(* C8: when store_message reports a duplicate, forward_message finishes as  *)
(* a successful no-op: success=true, whatsapp_message_id null, no error,    *)
(* and no notifier call for that request.                                   *)
C8_DuplicateIsSuccessfulNoOp ==
    \A t \in Tasks :
        (task[t].store_returned /\ ~task[t].is_new) =>
            /\ task[t].pc = "done"
            /\ task[t].resp.kind = "ForwardResponse"
            /\ task[t].resp.success
            /\ task[t].resp.whatsapp_message_id = "None"
            /\ task[t].posts = <<>>

C8_Witness ==
    \E t \in Tasks :
        /\ task[t].store_returned /\ ~task[t].is_new /\ ~StoreFailed(task[t])
        /\ task[t].resp.message = "message already forwarded"

(* C9: when the backing store is unreachable during a request, the request  *)
(* ends as a hard failure: an error response, never success=true, reported  *)
(* neither as forwarded nor as already forwarded.                           *)
C9_StoreFailureIsHardFailure ==
    \A t \in Tasks :
        StoreFailed(task[t]) =>
            /\ task[t].posts = <<>>
            /\ task[t].pc = "done" =>
                   (task[t].resp.kind = "HTTPException" /\ ~task[t].resp.success)

(* C10: when the notifier answers with a non-success status or times out,   *)
(* forward_message reports 500 'Failed to send WhatsApp message', and the   *)
(* notifier is invoked at most once per request.                            *)
C10_DeliveryFailureNoRetry ==
    \A t \in Tasks :
        /\ Len(task[t].posts) <= 1
        /\ task[t].send_outcome \in {"non_200", "timeout"} =>
               /\ task[t].pc = "done"
               /\ task[t].resp = HTTPException(500, "Failed to send WhatsApp message")

C10_Witness ==
    \E t \in Tasks :
        /\ task[t].send_outcome = "timeout"
        /\ task[t].resp.status_code = 500
        /\ Len(task[t].posts) = 1

(* C2: of the tasks that carry the same fingerprint and run concurrently,   *)
(* exactly one obtains first-seen from store_message; all others obtain     *)
(* duplicate.                                                               *)
C2_ExactlyOneFirstSeen ==
    ticks = 0 =>
        \A t \in Tasks :
            task[t].store_returned =>
                Cardinality({u \in Tasks : /\ task[u].store_returned
                                           /\ task[u].message_hash = task[t].message_hash
                                           /\ task[u].is_new}) = 1

(* the part of C2 the in-process store keeps *)
C2_InProcessExactlyOne == ~redis_on => C2_ExactlyOneFirstSeen

(* C11: a response carries a notification id exactly when that request      *)
(* registered its fingerprint as first seen and the notifier returned a     *)
(* message id for it; duplicates and failures carry none.                   *)
C11_NotificationIdOnlyWhenForwarded ==
    \A t \in Tasks :
        task[t].pc = "done" =>
            ( task[t].resp.whatsapp_message_id # "None"
              <=> /\ task[t].store_returned /\ task[t].is_new
                  /\ Len(task[t].posts) = 1
                  /\ send_message_result(task[t].send_outcome) # "None"
                  /\ task[t].resp.whatsapp_message_id
                         = send_message_result(task[t].send_outcome) )

C11_Witness ==
    \E t \in Tasks :
        /\ task[t].pc = "done" /\ task[t].is_new
        /\ task[t].send_outcome = "200_with_id"
        /\ task[t].resp.success
        /\ task[t].resp.whatsapp_message_id = "wamid.1"

OtpRule(m) == _check_otp(m) # NoResult
TransactionRule(m) == _check_transaction(m) # NoResult
SecurityRule(m) == _check_security_alert(m) # NoResult
BillRule(m) == _check_bill(m) # NoResult

SummaryOf(template_params) == template_params[Len(template_params)].text

(* a currency amount, an account/card reference or a run of 4 or more       *)
(* digits of the plaintext stands in the tokens                             *)
Leaks(toks) ==
    \E i \in 1..Len(toks) :
        \/ toks[i].k \in {"acct", "ref"}
        \/ toks[i].k = "num" /\ toks[i].n >= 4
        \/ toks[i].k = "cur" /\ i + 1 <= Len(toks) /\ toks[i + 1].k = "num"

(* C13: for every message type other than OTP, the summary parameter handed *)
(* to the notifier has gone through the masking pass: it holds no currency  *)
(* amount, no account/card reference and no run of 4 or more digits of the  *)
(* plaintext.                                                               *)
C13_SummaryHandedOverIsMasked ==
    \A t \in Tasks :
        \A i \in 1..Len(task[t].posts) :
            task[t].posts[i].message_type # "OTP" =>
                ~Leaks(SummaryOf(task[t].posts[i].template_params).toks)

(* the part of C13 the code keeps: the summaries of TRANSACTION and BILL    *)
(* messages whose digits stand alone                                        *)
C13_TransactionAndBillMasked ==
    \A t \in Tasks :
        \A i \in 1..Len(task[t].posts) :
            task[t].posts[i].message_type \in {"TRANSACTION", "BILL"} =>
                ~Leaks(SummaryOf(task[t].posts[i].template_params).toks)

(* C14: the output of the masking pass holds no run of 4 or more            *)
(* consecutive digits of its input: amounts, two-letter-prefixed references *)
(* and every remaining 4+-digit run are replaced by placeholders.           *)
C14_NoDigitRunSurvivesMasking ==
    call.op = "mask" =>
        \A i \in 1..Len(call.result.toks) :
            ~(call.result.toks[i].k \in {"num", "acct", "ref"} /\ call.result.toks[i].n >= 4)

(* the part of C14 the code keeps: digit runs that stand alone or follow XX *)
C14_StandingRunsMasked ==
    call.op = "mask" =>
        \A i \in 1..Len(call.result.toks) :
            ~(call.result.toks[i].k \in {"num", "acct"} /\ call.result.toks[i].n >= 4)

(* the text a summary is cut from *)
BeforeCut(message_type, text) ==
    IF message_type \in {"TRANSACTION", "BILL"}
    THEN MaskNumbers(MaskAccounts(MaskAmounts(text)))
    ELSE text

(* C15: every summary parameter, for every message type that carries one,   *)
(* is at most 200 characters long, and whenever the text was cut to fit it  *)
(* ends with the ellipsis marker.                                           *)
C15_SummaryFitsAndMarksTheCut ==
    (call.op = "render" /\ call.args[1] # "OTP") =>
        LET summary == SummaryOf(call.result)
            whole == BeforeCut(call.args[1], call.args[3])
        IN  /\ summary.len <= 200
            /\ TextLen(whole) > 200 =>
                   summary.toks[Len(summary.toks)] = [k |-> "ellipsis", s |-> "...", n |-> 3]

(* the part of C15 the code keeps: the length *)
C15_SummaryFits ==
    (call.op = "render" /\ call.args[1] # "OTP") => SummaryOf(call.result).len <= 200

(* the type a request is handled as: the declared one, or the classifier's  *)
(* when the caller declared none                                            *)
EffectiveType(tk) ==
    IF tk.req.message_type = "UNKNOWN"
    THEN classify(tk.decrypted_message, tk.req.sender).message_type
    ELSE tk.req.message_type

(* C16: a first-seen fingerprint is registered with expiry = registration   *)
(* time + the TTL of the message's effective type: 300 for OTP, 600 for     *)
(* TRANSACTION, 900 for BILL, 600 for SECURITY_ALERT and the OTP TTL for    *)
(* UNKNOWN.                                                                 *)
C16_ExpiryIsTtlOfEffectiveType ==
    [][ \A t \in Tasks :
          (StoreReturnsTo(t) /\ task'[t].is_new) =>
              LET fp == task'[t].message_hash
                  entries == IF redis_on THEN redis_db' ELSE memory_store'
              IN  /\ fp \in DOMAIN entries
                  /\ entries[fp].expires_at = now + TtlOf(EffectiveType(task'[t]))
      ]_vars

(* an unclassified message was registered for the OTP TTL *)
C16_Witness ==
    \E t \in Tasks :
        /\ ~redis_on
        /\ task[t].store_returned /\ task[t].is_new
        /\ task[t].req.message_type = "UNKNOWN" /\ task[t].message_type = "UNKNOWN"
        /\ task[t].message_hash \in DOMAIN memory_store
        /\ memory_store[task[t].message_hash].expires_at = task[t].current_time + 300

TemplateOf(message_type) ==
    CASE message_type = "OTP" -> "otp_notification"
      [] message_type = "TRANSACTION" -> "transaction_alert"
      [] message_type = "BILL" -> "bill_notification"
      [] message_type = "SECURITY_ALERT" -> "security_alert"

(* C17: the classifier is invoked exactly when the declared type is         *)
(* UNKNOWN; a declared type is used unchanged for TTL selection and for     *)
(* template selection, whatever the decrypted content is.                   *)
C17_ClassifierOnlyForUndeclaredType ==
    \A t \in Tasks :
        Has(task[t].trace, "store_message") =>
            /\ Has(task[t].trace, "classify") <=> task[t].req.message_type = "UNKNOWN"
            /\ task[t].req.message_type # "UNKNOWN" =>
                   /\ task[t].message_type = task[t].req.message_type
                   /\ \A i \in 1..Len(task[t].posts) :
                          /\ task[t].posts[i].template = TemplateOf(task[t].req.message_type)
                          /\ task[t].posts[i].message_type = task[t].req.message_type
                   /\ ( /\ ~redis_on /\ task[t].store_returned /\ task[t].is_new
                        /\ task[t].message_hash \in DOMAIN memory_store )
                      => memory_store[task[t].message_hash].expires_at
                             = task[t].current_time + TtlOf(task[t].req.message_type)

(* a text the classifier calls OTP was declared BILL and handled as BILL *)
C17_Witness ==
    \E t \in Tasks :
        /\ task[t].req.message_type = "BILL"
        /\ classify(task[t].decrypted_message, task[t].req.sender).message_type = "OTP"
        /\ Len(task[t].posts) = 1
        /\ task[t].posts[1].template = "bill_notification"
        /\ ~Has(task[t].trace, "classify")

(* C18: a message that reaches the BILL rule is classified BILL with        *)
(* confidence 0.8 exactly when its score is >= 2, the score being +1 for    *)
(* the presence of bill keywords and +1 for a detected amount; a message    *)
(* with bill keywords but no detected amount is not classified BILL.        *)
C18_BillNeedsKeywordAndAmount ==
    ( /\ call.op = "classify"
      /\ ~OtpRule(call.args[1]) /\ ~TransactionRule(call.args[1])
      /\ ~SecurityRule(call.args[1]) ) =>
        LET m == call.args[1]
            has_keyword == Count(BillKeywordHits(m)) >= 1
            score == (IF has_keyword THEN 1 ELSE 0) + (IF HasAmount(m) THEN 1 ELSE 0)
        IN  /\ (call.result.message_type = "BILL" /\ call.result.confidence = 80)
                   <=> score >= 2
            /\ call.result.message_type = "BILL" => call.result.confidence = 80
            /\ (has_keyword /\ ~HasAmount(m)) => call.result.message_type # "BILL"

(* the part of C18 the code keeps: a bill keyword with an amount is BILL    *)
(* with confidence 0.8, and no BILL comes without a bill keyword            *)
C18_KeywordAndAmountIsBill ==
    ( /\ call.op = "classify"
      /\ ~OtpRule(call.args[1]) /\ ~TransactionRule(call.args[1])
      /\ ~SecurityRule(call.args[1]) ) =>
        LET m == call.args[1]
            has_keyword == Count(BillKeywordHits(m)) >= 1
        IN  /\ (has_keyword /\ HasAmount(m)) =>
                   (call.result.message_type = "BILL" /\ call.result.confidence = 80)
            /\ call.result.message_type = "BILL" => has_keyword

(* C19: the health endpoint reports 'healthy' exactly when both the store   *)
(* probe and the outbound channel probe succeed and 'degraded' when either  *)
(* fails; each probe's own result is reported independently of the other.   *)
C19_HealthyOnlyWhenBothProbesSucceed ==
    call.op = "health" =>
        LET store_ok == ~call.args[1] \/ call.args[2] = "ok"
            channel_ok == call.args[3] = "200"
        IN  /\ call.result.status = "healthy" <=> (store_ok /\ channel_ok)
            /\ call.result.status = "degraded" <=> ~(store_ok /\ channel_ok)
            /\ call.result.redis_connected = store_ok
            /\ call.result.whatsapp_api_configured = channel_ok

(* the Redis ping failed while the channel answered: degraded, and each     *)
(* probe reported as it went                                                *)
C19_Witness ==
    /\ call.op = "health"
    /\ call.args[1] /\ call.args[2] = "raise" /\ call.args[3] = "200"
    /\ call.result.status = "degraded"
    /\ ~call.result.redis_connected /\ call.result.whatsapp_api_configured

AnsweredDuplicate(tk) ==
    /\ tk.pc = "done"
    /\ tk.resp.kind = "ForwardResponse"
    /\ tk.resp.success
    /\ tk.resp.message = "message already forwarded"

(* C21: a request is answered 'already forwarded' only if an earlier        *)
(* request with the same fingerprint was handed to the notifier and         *)
(* accepted by it: a fingerprint whose earlier attempts all ended in a      *)
(* delivery failure is not reported as already handled.                     *)
C21_DuplicateOnlyAfterDelivery ==
    \A t \in Tasks :
        AnsweredDuplicate(task[t]) =>
            \E d \in delivered : d.message_hash = task[t].message_hash

(* the part of C21 the code keeps: on the in-process store a request is     *)
(* answered 'already forwarded' only while its fingerprint is registered    *)
C21_DuplicateOnlyWhileRegistered ==
    [][ \A t \in Tasks :
          (~redis_on /\ task'[t] # task[t] /\ AnsweredDuplicate(task'[t])) =>
              Registered(task'[t].message_hash) ]_vars

(* task t is answered in this step with a rejection of the replay check    *)
(* (400) or of the authentication (401)                                     *)
RejectedAtTheGate(t) ==
    /\ task'[t] # task[t]
    /\ task'[t].pc = "done"
    /\ task'[t].resp.kind = "HTTPException"
    /\ task'[t].resp.status_code \in {400, 401}

(* C22: a request rejected by the replay check or by the authentication    *)
(* leaves the deduplication store as it was (no fingerprint added, removed  *)
(* or refreshed, on either backend) and calls neither the classifier nor    *)
(* store_message nor the notifier.                                          *)
C22_RejectionLeavesStoreAlone ==
    [][ \A t \in Tasks :
          RejectedAtTheGate(t) =>
              /\ memory_store' = memory_store
              /\ redis_db' = redis_db
              /\ ~Has(task'[t].trace, "classify")
              /\ ~Has(task'[t].trace, "store_message")
              /\ ~Has(task'[t].trace, "send_message")
              /\ task'[t].posts = <<>> ]_vars

(* a request was rejected while the in-process store held an entry whose   *)
(* expiry had come, and the entry is still there                            *)
C22_Witness ==
    \E t \in Tasks :
        /\ ~redis_on
        /\ task[t].pc = "done"
        /\ task[t].resp.status_code \in {400, 401}
        /\ \E key \in DOMAIN memory_store : memory_store[key].expires_at <= now

(* C23: every message handed to the notifier with effective type OTP,      *)
(* declared by the caller or assigned by the classifier to a message       *)
(* declared UNKNOWN, was accepted with |now - timestamp| <= 300.           *)
C23_ForwardedOtpIsFresh ==
    \A t \in Tasks :
        (Len(task[t].posts) > 0 /\ task[t].message_type = "OTP") =>
            Abs(task[t].current_time - task[t].req.timestamp) <= 300

(* the part of C23 the code keeps: a message declared OTP is handed to the *)
(* notifier only when it was accepted within 300 seconds                   *)
C23_DeclaredOtpIsFresh ==
    \A t \in Tasks :
        (Len(task[t].posts) > 0 /\ task[t].req.message_type = "OTP") =>
            Abs(task[t].current_time - task[t].req.timestamp) <= 300

(* C24: once an envelope (payload, signature) has been forwarded, a later   *)
(* submission of the same payload and signature, whatever its timestamp,    *)
(* sender, declared type and message_hash, made after the TTL of its        *)
(* fingerprint has expired is not forwarded a second time.                  *)
C24_NoReplayAcrossTtl ==
    \A d1, d2 \in delivered :
        ( /\ d2.encrypted_payload = d1.encrypted_payload
          /\ d2.hmac_signature = d1.hmac_signature
          /\ d2.received >= d1.at + TtlOf(d1.message_type) ) => d2 = d1

(* C25: the deduplication key of an authentic envelope is the SHA-256 of   *)
(* its plaintext whether or not the caller supplies message_hash, so two   *)
(* envelopes with the same plaintext arriving within the TTL deduplicate   *)
(* against each other.                                                      *)
C25_KeyIsHashOfPlaintext ==
    \A t \in Tasks :
        Has(task[t].trace, "store_message") =>
            task[t].message_hash = [h |-> "sha256", of |-> task[t].decrypted_message]

(* the part of C25 the code keeps: without a caller's hash the key is the  *)
(* SHA-256 of the plaintext                                                 *)
C25_ComputedKeyIsHashOfPlaintext ==
    \A t \in Tasks :
        (Has(task[t].trace, "store_message") /\ task[t].req.message_hash = NoHash) =>
            task[t].message_hash = [h |-> "sha256", of |-> task[t].decrypted_message]

(* task t takes a step inside store_message: it enters it, or one of its   *)
(* two Redis calls returns                                                  *)
InStoreMessage(t) ==
    /\ task'[t] # task[t]
    /\ Has(task'[t].trace, "store_message")
    /\ task[t].pc \in {"idle", "done", "exists", "setex"}

(* the entry of a fingerprint on the backend in use is the same before and *)
(* after the step                                                           *)
EntryUntouched(fingerprint) ==
    IF redis_on
    THEN fingerprint \in DOMAIN redis_db' /\ redis_db'[fingerprint] = redis_db[fingerprint]
    ELSE /\ fingerprint \in DOMAIN memory_store'
         /\ memory_store'[fingerprint] = memory_store[fingerprint]

(* C26: store_message on a fingerprint that is present and unexpired       *)
(* leaves its entry as it is: the expiry is not extended and the recorded  *)
(* sender and type are not overwritten, whatever sender and type the       *)
(* second arrival carries.                                                  *)
C26_PresentEntryUntouched ==
    [][ \A t \in Tasks :
          (InStoreMessage(t) /\ Registered(task'[t].message_hash)) =>
              EntryUntouched(task'[t].message_hash) ]_vars

(* the part of C26 the code keeps: on the in-process store the entry of a  *)
(* present, unexpired fingerprint is left as it is                          *)
C26_InProcessEntryUntouched ==
    [][ \A t \in Tasks :
          (~redis_on /\ InStoreMessage(t) /\ Registered(task'[t].message_hash)) =>
              EntryUntouched(task'[t].message_hash) ]_vars

C28_LegacyIsOtp ==
    [][ \A t \in Tasks :
          task'[t] # task[t] =>
              LET tk == task'[t]
                  posted == call'.args[1]
                  entries == IF redis_on THEN redis_db' ELSE memory_store'
              IN  /\ call'.op = "forward_otp_legacy"
                  /\ tk.req.timestamp = posted.timestamp
                  /\ tk.req.encrypted_payload = posted.encrypted_payload
                  /\ Len(tk.trace) > 1 <=> Abs(tk.current_time - posted.timestamp) <= 300
                  /\ ~Has(tk.trace, "classify")
                  /\ Has(tk.trace, "store_message") => tk.message_type = "OTP"
                  /\ (StoreReturnsTo(t) /\ tk.is_new) =>
                         /\ tk.message_hash \in DOMAIN entries
                         /\ entries[tk.message_hash].expires_at = now + 300
                  /\ \A i \in 1..Len(tk.posts) :
                         /\ tk.posts[i].template = "otp_notification"
                         /\ tk.posts[i].message_type = "OTP" ]_vars

(* the transaction text, posted to /forward-otp declared BILL, is on its   *)
(* way to the notifier with the OTP template                                *)
C28_Witness ==
    \E t \in Tasks :
        /\ call.op = "forward_otp_legacy"
        /\ call.args[1].message_type = "BILL"
        /\ task[t].decrypted_message = MsgTxn
        /\ task[t].pc = "send"
        /\ task[t].posts[1].template = "otp_notification"

(* C29 speaks of registrations and verifications that succeed.  None does: *)
(* every call of the three sign-up endpoints ends in the attribute lookup  *)
(* that raises, is answered 500 and leaves every store as it was.          *)
C29_SignupEndpointsRaise ==
    [][ call'.op \in {"send_verification_otp", "verify_otp", "register_user"} =>
            /\ call'.result = InternalServerError
            /\ ~call'.result.success
            /\ memory_store' = memory_store /\ redis_db' = redis_db ]_vars

====
